---- MODULE Spec2Model ----
(***************************************************************************)
(* Model of the sbrk-backed first-fit allocator of src/allocator.c.        *)
(*                                                                         *)
(* The heap is the byte range [heap_start, heap_end).  mem maps every      *)
(* address at which the allocator has ever written a block_header to the   *)
(* header stored there; a header absorbed by a coalesce is not erased by   *)
(* the code, so it stays in mem (this is what a second free of the same    *)
(* pointer reads).  Addresses and sizes are byte counts.  The operators    *)
(* named after C functions take the allocator state as a record and return *)
(* the state after the call (and the return value, when there is one).     *)
(***************************************************************************)
EXTENDS Integers, FiniteSets, Sequences, TLC

(* ---------------- program constants ---------------- *)
MIN_PAYLOAD_SIZE == 16
DEFAULT_HEAP_SIZE == 4096
ALIGNMENT == 8
\* sizeof(block_header) on LP64: size_t + 2 pointers + unsigned + uint32_t
H == 32
NULL == 0
MAGIC_FREE == "DEADBEEF"
MAGIC_ALLOCATED == "FEEDFACE"
\* sbrk's failure value, (void*)-1
SBRK_FAILED == -1

(* ---------------- bounds of the model ---------------- *)
\* the client stops allocating once the allocator has written headers at
\* MaxHeaders distinct addresses
MaxHeaders == 4
\* the OS refuses to move the program break more than MaxHeapBytes above
\* its initial value (it may also refuse earlier)
MaxHeapBytes == 9300
\* modulus of the size type
SizeMod == 65536
\* request sizes the client passes to my_malloc
ReqSizes == {0, 1, 4040, 5000}
\* sizes the client passes to init_allocator
InitSizes == {41, 48}
\* the program break before the allocator first moves it
InitBreaks == {8192}
\* initial breaks of SpecAnyBreak: one a multiple of ALIGNMENT, one not
AnyBreaks == {8192, 8196}

\* request sizes and initial sizes of SpecFit
FitSizes == {1, 100}
FitInitSizes == {48}
\* initial sizes of SpecInit: below, just below, at and above the minimum
AroundMinSizes == {0, 41, 47, 48, 50}
\* request sizes of SpecWrap: a small one and two within ALIGNMENT - 1 of
\* the modulus of the size type, which align_size rounds past it
WrapSizes == {1, SizeMod - 7, SizeMod - 1}

VARIABLES heap_start, heap_end, free_list, mem, brk, brk0, live, freed, last

vars == <<heap_start, heap_end, free_list, mem, brk, brk0, live, freed, last>>

\* the allocator's globals, the heap contents and the program break
State ==
  [heap_start |-> heap_start, heap_end |-> heap_end, free_list |-> free_list,
   mem |-> mem, brk |-> brk]

(* ---------------- memory access ---------------- *)
\* what a read of a header at an address holding none yields
NoHeader ==
  [payload_size |-> 0, next |-> NULL, prev |-> NULL, is_free |-> 0, magic |-> "NONE"]

Hdr(m, a) == IF a \in DOMAIN m THEN m[a] ELSE NoHeader

Store(m, a, h) == [x \in (DOMAIN m) \cup {a} |-> IF x = a THEN h ELSE m[x]]

(* ---------------- size_t arithmetic ---------------- *)
\* size_t values are kept modulo SizeMod; the model's heaps and requests
\* stay below it, the width is scaled down from the platform's 2^64
Wrap(x) == x % SizeMod

\* variant of align_size: the size is not rounded up
align_size_noround(size) == Wrap(size)

\* (size + ALIGNMENT - 1) & ~(ALIGNMENT - 1)
align_size(size) == (Wrap(size + ALIGNMENT - 1) \div ALIGNMENT) * ALIGNMENT

(* ---------------- the program break ---------------- *)
\* sbrk(increment) for increment > 0; ok is the OS's answer.  sbrk(0) only
\* reads the break (st.brk) and is taken not to fail, so the returns of
\* lines 57-59 and 67-70 of init_allocator are never taken.
sbrk(st, increment, ok) ==
  IF ok /\ st.brk + increment <= brk0 + MaxHeapBytes
  THEN [st |-> [st EXCEPT !.brk = st.brk + increment], ret |-> st.brk]
  ELSE [st |-> st, ret |-> SBRK_FAILED]

(* ---------------- init_allocator ---------------- *)
\* variant of init_allocator: the first block is tagged ALLOCATED
init_allocator_badtag(st, initial_size, ok) ==
  IF st.heap_start # NULL
  THEN [st |-> st, ret |-> st.heap_start]
  ELSE
    LET size1 == IF initial_size < H + MIN_PAYLOAD_SIZE
                 THEN DEFAULT_HEAP_SIZE ELSE initial_size
        size == align_size(size1)
        base == st.brk
        r == sbrk(st, size, ok)
    IN IF r.ret = SBRK_FAILED
       THEN [st |-> [st EXCEPT !.heap_start = NULL], ret |-> NULL]
       ELSE [st |-> [r.st EXCEPT
                       !.heap_start = base,
                       !.heap_end = r.st.brk,
                       !.free_list = base,
                       !.mem = Store(st.mem, base,
                                 [payload_size |-> Wrap(size - H), is_free |-> 1,
                                  next |-> NULL, prev |-> NULL,
                                  magic |-> MAGIC_ALLOCATED])],
             ret |-> base]

\* variant of init_allocator: a heap is set up even when one exists
init_allocator_reinit(st, initial_size, ok) ==
  LET size1 == IF initial_size < H + MIN_PAYLOAD_SIZE
               THEN DEFAULT_HEAP_SIZE ELSE initial_size
      size == align_size(size1)
      base == st.brk
      r == sbrk(st, size, ok)
  IN IF r.ret = SBRK_FAILED
     THEN [st |-> [st EXCEPT !.heap_start = NULL], ret |-> NULL]
     ELSE [st |-> [r.st EXCEPT
                     !.heap_start = base,
                     !.heap_end = r.st.brk,
                     !.free_list = base,
                     !.mem = Store(st.mem, base,
                               [payload_size |-> Wrap(size - H), is_free |-> 1,
                                next |-> NULL, prev |-> NULL,
                                magic |-> MAGIC_FREE])],
           ret |-> base]

\* variant of init_allocator: the size is rounded before it is compared
\* with the minimum
init_allocator_roundfirst(st, initial_size, ok) ==
  IF st.heap_start # NULL
  THEN [st |-> st, ret |-> st.heap_start]
  ELSE
    LET size1 == align_size(initial_size)
        size == IF size1 < H + MIN_PAYLOAD_SIZE THEN DEFAULT_HEAP_SIZE ELSE size1
        base == st.brk
        r == sbrk(st, size, ok)
    IN IF r.ret = SBRK_FAILED
       THEN [st |-> [st EXCEPT !.heap_start = NULL], ret |-> NULL]
       ELSE [st |-> [r.st EXCEPT
                       !.heap_start = base,
                       !.heap_end = r.st.brk,
                       !.free_list = base,
                       !.mem = Store(st.mem, base,
                                 [payload_size |-> Wrap(size - H), is_free |-> 1,
                                  next |-> NULL, prev |-> NULL,
                                  magic |-> MAGIC_FREE])],
             ret |-> base]

init_allocator(st, initial_size, ok) ==
  IF st.heap_start # NULL
  THEN [st |-> st, ret |-> st.heap_start]
  ELSE
    LET size1 == IF initial_size < H + MIN_PAYLOAD_SIZE
                 THEN DEFAULT_HEAP_SIZE ELSE initial_size
        size == align_size(size1)
        base == st.brk                      \* heap_start = sbrk(0)
        r == sbrk(st, size, ok)
    IN IF r.ret = SBRK_FAILED
       THEN [st |-> [st EXCEPT !.heap_start = NULL], ret |-> NULL]
       ELSE [st |-> [r.st EXCEPT
                       !.heap_start = base,
                       !.heap_end = r.st.brk,   \* heap_end = sbrk(0)
                       !.free_list = base,
                       !.mem = Store(st.mem, base,
                                 [payload_size |-> Wrap(size - H), is_free |-> 1,
                                  next |-> NULL, prev |-> NULL,
                                  magic |-> MAGIC_FREE])],
             ret |-> base]

(* ---------------- find_free_block ---------------- *)
\* variant of find_free_block: a block of exactly the required size is passed over
RECURSIVE find_from_strict(_, _, _, _)
find_from_strict(m, current, required_size, fuel) ==
  IF current = NULL \/ fuel = 0 THEN NULL
  ELSE IF Hdr(m, current).is_free # 0 /\ Hdr(m, current).payload_size > required_size
       THEN current
       ELSE find_from_strict(m, Hdr(m, current).next, required_size, fuel - 1)

find_free_block_strict(st, required_size) ==
  find_from_strict(st.mem, st.free_list, required_size, Cardinality(DOMAIN st.mem) + 1)

\* first fit along the next links; fuel bounds the walk by the number of
\* headers, a list that ran longer would be cyclic
RECURSIVE find_from(_, _, _, _)
find_from(m, current, required_size, fuel) ==
  IF current = NULL \/ fuel = 0 THEN NULL
  ELSE IF Hdr(m, current).is_free # 0 /\ Hdr(m, current).payload_size >= required_size
       THEN current
       ELSE find_from(m, Hdr(m, current).next, required_size, fuel - 1)

find_free_block(st, required_size) ==
  find_from(st.mem, st.free_list, required_size, Cardinality(DOMAIN st.mem) + 1)

(* ---------------- add_to_free_list / remove_from_free_list ---------------- *)
\* variant of add_to_free_list: the block is appended at the tail
RECURSIVE list_tail(_, _, _)
list_tail(m, a, fuel) ==
  IF Hdr(m, a).next = NULL \/ fuel = 0 THEN a
  ELSE list_tail(m, Hdr(m, a).next, fuel - 1)

add_to_free_list_tail(st, block) ==
  IF block = NULL THEN st
  ELSE
    LET m1 == [st.mem EXCEPT ![block].is_free = 1, ![block].magic = MAGIC_FREE,
                             ![block].next = NULL, ![block].prev = NULL]
        t == list_tail(m1, st.free_list, Cardinality(DOMAIN m1))
    IN IF st.free_list = NULL
       THEN [st EXCEPT !.mem = m1, !.free_list = block]
       ELSE [st EXCEPT !.mem = [m1 EXCEPT ![block].prev = t, ![t].next = block]]

add_to_free_list(st, block) ==
  IF block = NULL THEN st
  ELSE
    LET m1 == [st.mem EXCEPT ![block].is_free = 1, ![block].magic = MAGIC_FREE,
                             ![block].next = st.free_list, ![block].prev = NULL]
        m2 == IF st.free_list # NULL
              THEN [m1 EXCEPT ![st.free_list].prev = block] ELSE m1
    IN [st EXCEPT !.mem = m2, !.free_list = block]

remove_from_free_list(st, block) ==
  IF block = NULL THEN st
  ELSE
    LET m0 == st.mem
        m1 == IF Hdr(m0, block).prev # NULL
              THEN [m0 EXCEPT ![Hdr(m0, block).prev].next = Hdr(m0, block).next]
              ELSE m0
        fl == IF Hdr(m0, block).prev # NULL THEN st.free_list
              ELSE Hdr(m0, block).next
        m2 == IF Hdr(m1, block).next # NULL
              THEN [m1 EXCEPT ![Hdr(m1, block).next].prev = Hdr(m1, block).prev]
              ELSE m1
        m3 == [m2 EXCEPT ![block].next = NULL, ![block].prev = NULL]
    IN [st EXCEPT !.mem = m3, !.free_list = fl]

(* ---------------- split_block ---------------- *)
\* variant of split_block: the split point leaves out the header of block
split_block_nohdr(st, block, required_size) ==
  IF block = NULL THEN [st |-> st, ret |-> NULL]
  ELSE
    LET total_available == Hdr(st.mem, block).payload_size
        leftover_size == Wrap(total_available - required_size)
        new_block == block + required_size
    IN IF leftover_size < H + MIN_PAYLOAD_SIZE
       THEN [st |-> st, ret |-> NULL]
       ELSE
         LET m1 == Store(st.mem, new_block,
                     [payload_size |-> Wrap(leftover_size - H), is_free |-> 1,
                      magic |-> MAGIC_FREE,
                      next |-> Hdr(st.mem, block).next, prev |-> block])
             m2 == IF Hdr(m1, block).next # NULL
                   THEN [m1 EXCEPT ![Hdr(m1, block).next].prev = new_block]
                   ELSE m1
             m3 == [m2 EXCEPT ![block].next = new_block]
             m4 == [m3 EXCEPT ![block].payload_size = required_size]
         IN [st |-> [st EXCEPT !.mem = m4], ret |-> new_block]

\* variant of split_block: the residual's payload_size counts its own header
split_block_keephdr(st, block, required_size) ==
  IF block = NULL THEN [st |-> st, ret |-> NULL]
  ELSE
    LET total_available == Hdr(st.mem, block).payload_size
        leftover_size == Wrap(total_available - required_size)
        new_block == block + H + required_size
    IN IF leftover_size < H + MIN_PAYLOAD_SIZE
       THEN [st |-> st, ret |-> NULL]
       ELSE
         LET m1 == Store(st.mem, new_block,
                     [payload_size |-> leftover_size, is_free |-> 1,
                      magic |-> MAGIC_FREE,
                      next |-> Hdr(st.mem, block).next, prev |-> block])
             m2 == IF Hdr(m1, block).next # NULL
                   THEN [m1 EXCEPT ![Hdr(m1, block).next].prev = new_block]
                   ELSE m1
             m3 == [m2 EXCEPT ![block].next = new_block]
             m4 == [m3 EXCEPT ![block].payload_size = required_size]
         IN [st |-> [st EXCEPT !.mem = m4], ret |-> new_block]

\* variant of split_block: the header is left out of the split threshold
split_block_nohmin(st, block, required_size) ==
  IF block = NULL THEN [st |-> st, ret |-> NULL]
  ELSE
    LET total_available == Hdr(st.mem, block).payload_size
        leftover_size == Wrap(total_available - required_size)
        new_block == block + H + required_size
    IN IF leftover_size < MIN_PAYLOAD_SIZE
       THEN [st |-> st, ret |-> NULL]
       ELSE
         LET m1 == Store(st.mem, new_block,
                     [payload_size |-> Wrap(leftover_size - H), is_free |-> 1,
                      magic |-> MAGIC_FREE,
                      next |-> Hdr(st.mem, block).next, prev |-> block])
             m2 == IF Hdr(m1, block).next # NULL
                   THEN [m1 EXCEPT ![Hdr(m1, block).next].prev = new_block]
                   ELSE m1
             m3 == [m2 EXCEPT ![block].next = new_block]
             m4 == [m3 EXCEPT ![block].payload_size = required_size]
         IN [st |-> [st EXCEPT !.mem = m4], ret |-> new_block]

split_block(st, block, required_size) ==
  IF block = NULL THEN [st |-> st, ret |-> NULL]
  ELSE
    LET total_available == Hdr(st.mem, block).payload_size
        leftover_size == Wrap(total_available - required_size)
        new_block == block + H + required_size
    IN IF leftover_size < H + MIN_PAYLOAD_SIZE
       THEN [st |-> st, ret |-> NULL]
       ELSE
         LET m1 == Store(st.mem, new_block,
                     [payload_size |-> Wrap(leftover_size - H), is_free |-> 1,
                      magic |-> MAGIC_FREE,
                      next |-> Hdr(st.mem, block).next, prev |-> block])
             m2 == IF Hdr(m1, block).next # NULL
                   THEN [m1 EXCEPT ![Hdr(m1, block).next].prev = new_block]
                   ELSE m1
             m3 == [m2 EXCEPT ![block].next = new_block]
             m4 == [m3 EXCEPT ![block].payload_size = required_size]
         IN [st |-> [st EXCEPT !.mem = m4], ret |-> new_block]

(* ---------------- address-order walks ---------------- *)
\* the block after the one at a: (char*)a + sizeof(block_header) + a->payload_size
next_in_memory(m, a) == a + H + Hdr(m, a).payload_size

\* the loop of expand_heap (lines 194-197) and the second loop of
\* coalesce_block (lines 284-287): the last block visited before the walk
\* reaches end or stop
RECURSIVE walk_prev(_, _, _, _, _)
walk_prev(m, current, prev_block, end, stop) ==
  IF current < end /\ current # stop
  THEN walk_prev(m, next_in_memory(m, current), current, end, stop)
  ELSE prev_block

\* the first loop of coalesce_block (lines 263-278): does the walk visit block
RECURSIVE walk_finds(_, _, _, _)
walk_finds(m, current, end, block) ==
  IF current < end
  THEN IF current = block THEN TRUE
       ELSE walk_finds(m, next_in_memory(m, current), end, block)
  ELSE FALSE

(* ---------------- expand_heap ---------------- *)
\* variant of expand_heap: heap_end is advanced before the break extension
\* is known to have succeeded
expand_heap_endfirst(st, size, ok) ==
  LET expand_size == IF size > DEFAULT_HEAP_SIZE THEN align_size(size)
                     ELSE DEFAULT_HEAP_SIZE
      old_end == st.heap_end
      r == sbrk(st, expand_size, ok)
  IN IF r.ret = SBRK_FAILED
     THEN [st |-> [st EXCEPT !.heap_end = old_end + expand_size], ret |-> NULL]
     ELSE
       LET m1 == Store(st.mem, old_end,
                   [payload_size |-> Wrap(expand_size - H), is_free |-> 1,
                    magic |-> MAGIC_FREE, next |-> NULL, prev |-> NULL])
           st1 == [r.st EXCEPT !.heap_end = r.st.brk, !.mem = m1]
           last_block == walk_prev(m1, st.heap_start, NULL, old_end, NULL)
       IN IF last_block # NULL /\ Hdr(m1, last_block).is_free # 0
          THEN [st |-> [st1 EXCEPT !.mem[last_block].payload_size =
                          Wrap(Hdr(m1, last_block).payload_size + expand_size)],
                ret |-> last_block]
          ELSE [st |-> add_to_free_list(st1, old_end), ret |-> old_end]

\* variant of expand_heap: the heap always grows by DEFAULT_HEAP_SIZE
expand_heap_default(st, size, ok) ==
  LET expand_size == DEFAULT_HEAP_SIZE
      old_end == st.heap_end
      r == sbrk(st, expand_size, ok)
  IN IF r.ret = SBRK_FAILED
     THEN [st |-> st, ret |-> NULL]
     ELSE
       LET m1 == Store(st.mem, old_end,
                   [payload_size |-> Wrap(expand_size - H), is_free |-> 1,
                    magic |-> MAGIC_FREE, next |-> NULL, prev |-> NULL])
           st1 == [r.st EXCEPT !.heap_end = r.st.brk, !.mem = m1]
           last_block == walk_prev(m1, st.heap_start, NULL, old_end, NULL)
       IN IF last_block # NULL /\ Hdr(m1, last_block).is_free # 0
          THEN [st |-> [st1 EXCEPT !.mem[last_block].payload_size =
                          Wrap(Hdr(m1, last_block).payload_size + expand_size)],
                ret |-> last_block]
          ELSE [st |-> add_to_free_list(st1, old_end), ret |-> old_end]

\* variant of expand_heap: a free last block grows by the new region less
\* a header
expand_heap_mergeshort(st, size, ok) ==
  LET expand_size == IF size > DEFAULT_HEAP_SIZE THEN align_size(size)
                     ELSE DEFAULT_HEAP_SIZE
      old_end == st.heap_end
      r == sbrk(st, expand_size, ok)
  IN IF r.ret = SBRK_FAILED
     THEN [st |-> st, ret |-> NULL]
     ELSE
       LET m1 == Store(st.mem, old_end,
                   [payload_size |-> Wrap(expand_size - H), is_free |-> 1,
                    magic |-> MAGIC_FREE, next |-> NULL, prev |-> NULL])
           st1 == [r.st EXCEPT !.heap_end = r.st.brk, !.mem = m1]
           last_block == walk_prev(m1, st.heap_start, NULL, old_end, NULL)
       IN IF last_block # NULL /\ Hdr(m1, last_block).is_free # 0
          THEN [st |-> [st1 EXCEPT !.mem[last_block].payload_size =
                          Wrap(Hdr(m1, last_block).payload_size + expand_size - H)],
                ret |-> last_block]
          ELSE [st |-> add_to_free_list(st1, old_end), ret |-> old_end]

expand_heap(st, size, ok) ==
  LET expand_size == IF size > DEFAULT_HEAP_SIZE THEN align_size(size)
                     ELSE DEFAULT_HEAP_SIZE
      old_end == st.heap_end
      r == sbrk(st, expand_size, ok)
  IN IF r.ret = SBRK_FAILED
     THEN [st |-> st, ret |-> NULL]
     ELSE
       LET m1 == Store(st.mem, old_end,
                   [payload_size |-> Wrap(expand_size - H), is_free |-> 1,
                    magic |-> MAGIC_FREE, next |-> NULL, prev |-> NULL])
           st1 == [r.st EXCEPT !.heap_end = r.st.brk, !.mem = m1]
           last_block == walk_prev(m1, st.heap_start, NULL, old_end, NULL)
       IN IF last_block # NULL /\ Hdr(m1, last_block).is_free # 0
          THEN [st |-> [st1 EXCEPT !.mem[last_block].payload_size =
                          Wrap(Hdr(m1, last_block).payload_size + expand_size)],
                ret |-> last_block]
          ELSE [st |-> add_to_free_list(st1, old_end), ret |-> old_end]

(* ---------------- my_malloc ---------------- *)
\* variant of my_malloc: the residual of a split is not pushed on the free
\* list (lines 244-246 left out)
my_malloc_nopush(st, size, ok_init, ok_grow) ==
  IF size = 0 THEN [st |-> st, ret |-> NULL]
  ELSE
    LET i == IF st.heap_start = NULL
             THEN init_allocator(st, DEFAULT_HEAP_SIZE, ok_init)
             ELSE [st |-> st, ret |-> st.heap_start]
    IN IF i.ret = NULL THEN [st |-> i.st, ret |-> NULL]
       ELSE
         LET asize == align_size(size)
             found == find_free_block(i.st, asize)
             e == IF found = NULL
                  THEN expand_heap(i.st, Wrap(asize + H), ok_grow)
                  ELSE [st |-> i.st, ret |-> found]
             block == e.ret
         IN IF block = NULL THEN [st |-> e.st, ret |-> NULL]
            ELSE
              LET st1 == remove_from_free_list(e.st, block)
                  sp == split_block(st1, block, asize)
                  st3 == [sp.st EXCEPT !.mem[block].is_free = 0,
                                       !.mem[block].magic = MAGIC_ALLOCATED]
              IN [st |-> st3, ret |-> block + H]

\* variant of my_malloc: the heap is initialised before the size is looked at
my_malloc_initfirst(st, size, ok_init, ok_grow) ==
  LET i == IF st.heap_start = NULL
           THEN init_allocator(st, DEFAULT_HEAP_SIZE, ok_init)
           ELSE [st |-> st, ret |-> st.heap_start]
  IN IF i.ret = NULL \/ size = 0 THEN [st |-> i.st, ret |-> NULL]
     ELSE
       LET asize == align_size(size)
           found == find_free_block(i.st, asize)
           e == IF found = NULL
                THEN expand_heap(i.st, Wrap(asize + H), ok_grow)
                ELSE [st |-> i.st, ret |-> found]
           block == e.ret
       IN IF block = NULL THEN [st |-> e.st, ret |-> NULL]
          ELSE
            LET st1 == remove_from_free_list(e.st, block)
                sp == split_block(st1, block, asize)
                st2 == IF sp.ret # NULL THEN add_to_free_list(sp.st, sp.ret)
                       ELSE sp.st
                st3 == [st2 EXCEPT !.mem[block].is_free = 0,
                                   !.mem[block].magic = MAGIC_ALLOCATED]
            IN [st |-> st3, ret |-> block + H]

\* ok_init and ok_grow are the OS's answers to the break extensions of
\* init_allocator and expand_heap, when the call makes them
my_malloc(st, size, ok_init, ok_grow) ==
  IF size = 0 THEN [st |-> st, ret |-> NULL]
  ELSE
    LET i == IF st.heap_start = NULL
             THEN init_allocator(st, DEFAULT_HEAP_SIZE, ok_init)
             ELSE [st |-> st, ret |-> st.heap_start]
    IN IF i.ret = NULL THEN [st |-> i.st, ret |-> NULL]
       ELSE
         LET asize == align_size(size)
             found == find_free_block(i.st, asize)
             e == IF found = NULL
                  THEN expand_heap(i.st, Wrap(asize + H), ok_grow)
                  ELSE [st |-> i.st, ret |-> found]
             block == e.ret
         IN IF block = NULL THEN [st |-> e.st, ret |-> NULL]
            ELSE
              LET st1 == remove_from_free_list(e.st, block)
                  sp == split_block(st1, block, asize)
                  st2 == IF sp.ret # NULL THEN add_to_free_list(sp.st, sp.ret)
                         ELSE sp.st
                  st3 == [st2 EXCEPT !.mem[block].is_free = 0,
                                     !.mem[block].magic = MAGIC_ALLOCATED]
              IN [st |-> st3, ret |-> block + H]

(* ---------------- coalesce_block ---------------- *)
\* variant of coalesce_block: only the forward merge is done
coalesce_block_fwd(st, block) ==
  IF block = NULL \/ Hdr(st.mem, block).is_free = 0 THEN st
  ELSE
    LET nxt == next_in_memory(st.mem, block)
    IN IF walk_finds(st.mem, st.heap_start, st.heap_end, block)
          /\ nxt < st.heap_end /\ Hdr(st.mem, nxt).is_free # 0
       THEN LET r == remove_from_free_list(st, nxt)
            IN [r EXCEPT !.mem[block].payload_size =
                  Wrap(Hdr(r.mem, block).payload_size + H
                       + Hdr(r.mem, nxt).payload_size)]
       ELSE st

\* variant of coalesce_block: only the backward merge is done
coalesce_block_bwd(st, block) ==
  IF block = NULL \/ Hdr(st.mem, block).is_free = 0 THEN st
  ELSE
    LET prev_block == walk_prev(st.mem, st.heap_start, NULL, st.heap_end, block)
    IN IF prev_block # NULL /\ Hdr(st.mem, prev_block).is_free # 0
          /\ next_in_memory(st.mem, prev_block) = block
       THEN LET r == remove_from_free_list(st, block)
            IN [r EXCEPT !.mem[prev_block].payload_size =
                  Wrap(Hdr(r.mem, prev_block).payload_size + H
                       + Hdr(r.mem, block).payload_size)]
       ELSE st

coalesce_block(st, block) ==
  IF block = NULL \/ Hdr(st.mem, block).is_free = 0 THEN st
  ELSE
    LET nxt == next_in_memory(st.mem, block)
        \* forward: absorb the next block in memory when it is free
        st1 == IF walk_finds(st.mem, st.heap_start, st.heap_end, block)
                  /\ nxt < st.heap_end /\ Hdr(st.mem, nxt).is_free # 0
               THEN LET r == remove_from_free_list(st, nxt)
                    IN [r EXCEPT !.mem[block].payload_size =
                          Wrap(Hdr(r.mem, block).payload_size + H
                               + Hdr(r.mem, nxt).payload_size)]
               ELSE st
        \* backward: the previous block in memory absorbs block when it is free
        prev_block == walk_prev(st1.mem, st1.heap_start, NULL, st1.heap_end, block)
    IN IF prev_block # NULL /\ Hdr(st1.mem, prev_block).is_free # 0
          /\ next_in_memory(st1.mem, prev_block) = block
       THEN LET r == remove_from_free_list(st1, block)
            IN [r EXCEPT !.mem[prev_block].payload_size =
                  Wrap(Hdr(r.mem, prev_block).payload_size + H
                       + Hdr(r.mem, block).payload_size)]
       ELSE st1

(* ---------------- my_free ---------------- *)
\* variant of my_free: the magic tag is not checked
my_free_nocheck(st, payload_ptr) ==
  IF payload_ptr = NULL THEN st
  ELSE
    LET block == payload_ptr - H
        st1 == [st EXCEPT !.mem[block].is_free = 1,
                          !.mem[block].magic = MAGIC_FREE]
    IN coalesce_block(add_to_free_list(st1, block), block)

my_free(st, payload_ptr) ==
  IF payload_ptr = NULL THEN st
  ELSE
    LET block == payload_ptr - H
    IN IF Hdr(st.mem, block).magic # MAGIC_ALLOCATED THEN st
       ELSE
         LET st1 == [st EXCEPT !.mem[block].is_free = 1,
                               !.mem[block].magic = MAGIC_FREE]
         IN coalesce_block(add_to_free_list(st1, block), block)

(* ---------------- validate_heap ---------------- *)
\* variant of the walk of validate_heap: a block that ends exactly at
\* heap_end is reported as extending beyond the heap
RECURSIVE validate_walk_strict(_, _, _, _)
validate_walk_strict(m, current, end, fuel) ==
  IF ~(current < end) THEN 1
  ELSE IF fuel = 0 THEN 0
  ELSE IF Hdr(m, current).magic # MAGIC_FREE
          /\ Hdr(m, current).magic # MAGIC_ALLOCATED THEN 0
  ELSE IF current + H + Hdr(m, current).payload_size >= end THEN 0
  ELSE validate_walk_strict(m, next_in_memory(m, current), end, fuel - 1)

\* the while loop of validate_heap; fuel bounds the walk by the number of
\* headers (every header passed is a distinct address)
RECURSIVE validate_walk(_, _, _, _)
validate_walk(m, current, end, fuel) ==
  IF ~(current < end) THEN 1
  ELSE IF fuel = 0 THEN 0
  ELSE IF Hdr(m, current).magic # MAGIC_FREE
          /\ Hdr(m, current).magic # MAGIC_ALLOCATED THEN 0
  ELSE IF current + H + Hdr(m, current).payload_size > end THEN 0
  ELSE validate_walk(m, next_in_memory(m, current), end, fuel - 1)

\* variant of validate_heap using the strict walk
validate_heap_strict(st) ==
  IF st.heap_start = NULL THEN 1
  ELSE validate_walk_strict(st.mem, st.heap_start, st.heap_end,
                            Cardinality(DOMAIN st.mem) + 1)

validate_heap(st) ==
  IF st.heap_start = NULL THEN 1
  ELSE validate_walk(st.mem, st.heap_start, st.heap_end,
                     Cardinality(DOMAIN st.mem) + 1)

(* ---------------- the heap as seen by an address-order walk ---------------- *)
\* the addresses an address-order walk from a visits before it reaches end
RECURSIVE walk_from(_, _, _)
walk_from(m, a, end) ==
  IF a < end THEN {a} \cup walk_from(m, next_in_memory(m, a), end) ELSE {}

Blocks(st) == walk_from(st.mem, st.heap_start, st.heap_end)

(* ---------------- the client's calls ---------------- *)
\* live maps each pointer my_malloc returned and my_free has not released
\* since to the size it was requested with; freed holds the pointers that
\* were released and not returned again since.
\* pointers a caller passes to my_free: null, a live pointer, or a pointer
\* it has released already
FreeArgs == {NULL} \cup DOMAIN live \cup freed

NoCall ==
  [op |-> "none", arg |-> 0, ret |-> 0, outcome |-> "none",
   grew |-> FALSE, merged |-> FALSE]

Install(st) ==
  /\ heap_start' = st.heap_start
  /\ heap_end' = st.heap_end
  /\ free_list' = st.free_list
  /\ mem' = st.mem
  /\ brk' = st.brk
  /\ brk0' = brk0

InitFrom(breaks) ==
  /\ heap_start = NULL
  /\ heap_end = NULL
  /\ free_list = NULL
  /\ mem = << >>
  /\ brk0 \in breaks
  /\ brk = brk0
  /\ live = << >>
  /\ freed = {}
  /\ last = NoCall

Init == InitFrom(InitBreaks)

InitAnyBreak == InitFrom(AnyBreaks)

Initialize(initial_size, ok) ==
  LET r == init_allocator(State, initial_size, ok)
  IN /\ Install(r.st)
     /\ live' = live
     /\ freed' = freed
     /\ last' = [op |-> "init", arg |-> initial_size, ret |-> r.ret,
                 outcome |-> IF heap_start # NULL THEN "already"
                             ELSE IF r.ret = NULL THEN "oom" ELSE "ok",
                 grew |-> FALSE, merged |-> FALSE]

Malloc(size, ok_init, ok_grow) ==
  LET r == my_malloc(State, size, ok_init, ok_grow)
  IN /\ Cardinality(DOMAIN r.st.mem) <= MaxHeaders
     /\ Install(r.st)
     /\ live' = IF r.ret = NULL THEN live ELSE Store(live, r.ret, size)
     /\ freed' = freed \ {r.ret}
     /\ last' = [op |-> "malloc", arg |-> size, ret |-> r.ret,
                 outcome |-> IF size = 0 THEN "zero"
                             ELSE IF r.ret = NULL THEN "oom" ELSE "ok",
                 grew |-> heap_start # NULL /\ r.st.heap_end # heap_end,
                 merged |-> FALSE]

Free(p) ==
  LET st == my_free(State, p)
      released == p # NULL /\ Hdr(mem, p - H).magic = MAGIC_ALLOCATED
  IN /\ Install(st)
     /\ live' = IF released THEN [q \in (DOMAIN live) \ {p} |-> live[q]] ELSE live
     /\ freed' = IF released THEN freed \cup {p} ELSE freed
     /\ last' = [op |-> "free", arg |-> p, ret |-> NULL,
                 outcome |-> IF p = NULL THEN "null"
                             ELSE IF released THEN "ok" ELSE "rejected",
                 grew |-> FALSE,
                 merged |-> Cardinality(Blocks(st)) < Cardinality(Blocks(State))]

\* validate_heap() reads the heap and writes nothing
Validate ==
  /\ UNCHANGED <<heap_start, heap_end, free_list, mem, brk, brk0, live, freed>>
  /\ last' = [op |-> "validate", arg |-> NULL, ret |-> validate_heap(State),
              outcome |-> "ok", grew |-> FALSE, merged |-> FALSE]

\* one call of the public interface, arguments drawn from the given sets
NextWith(initSizes, reqSizes) ==
  \/ \E initial_size \in initSizes, ok \in BOOLEAN : Initialize(initial_size, ok)
  \/ \E size \in reqSizes, ok_init \in BOOLEAN, ok_grow \in BOOLEAN :
       Malloc(size, ok_init, ok_grow)
  \/ \E p \in FreeArgs : Free(p)
  \/ Validate

Next == NextWith(InitSizes, ReqSizes)

Spec == Init /\ [][Next]_vars

\* the same program started at an aligned or an unaligned program break
SpecAnyBreak == InitAnyBreak /\ [][Next]_vars

\* the same program driven with small requests, so that released blocks too
\* small for a later request stay on the free list
SpecFit == Init /\ [][NextWith(FitInitSizes, FitSizes)]_vars

\* the same program with explicit initialisation at sizes around the
\* minimum heap size H + MIN_PAYLOAD_SIZE
SpecInit == Init /\ [][NextWith(AroundMinSizes, FitSizes)]_vars

\* the same program asked for sizes at the top of the size type
SpecWrap == Init /\ [][NextWith(FitInitSizes, WrapSizes)]_vars

(* ======================================================================= *)
(* Properties                                                              *)
(* ======================================================================= *)

\* where an address-order walk from a stops: the first address >= end
RECURSIVE walk_end(_, _, _)
walk_end(m, a, end) ==
  IF a < end THEN walk_end(m, next_in_memory(m, a), end) ELSE a

\* the free list as the sequence of addresses reached from a by next links
RECURSIVE list_from(_, _, _)
list_from(m, a, fuel) ==
  IF a = NULL \/ fuel = 0 THEN << >>
  ELSE <<a>> \o list_from(m, Hdr(m, a).next, fuel - 1)

FreeListSeq == list_from(mem, free_list, Cardinality(DOMAIN mem) + 1)

FreeBlocks == {b \in Blocks(State) : Hdr(mem, b).is_free # 0}

LastBlock(b) == next_in_memory(mem, b) >= heap_end

\* C1: any two live allocations p1 < p2, p1 requested with size s1, satisfy
\* p2 >= p1 + s1 + H, and every live payload [p, p + s) lies inside
\* [heap_start, heap_end).
C1_NoOverlap ==
  /\ \A p1 \in DOMAIN live : \A p2 \in DOMAIN live :
       p1 < p2 => p2 >= p1 + live[p1] + H
  /\ \A p \in DOMAIN live : heap_start <= p /\ p + live[p] <= heap_end

C1_Witness ==
  /\ last.op = "malloc" /\ last.ret # NULL
  /\ \E p1 \in DOMAIN live : \E p2 \in DOMAIN live : p1 < p2
  /\ Cardinality(DOMAIN live) >= 3

\* C4: after every top-level call no two physically adjacent blocks are
\* both free.
C4_NoAdjacentFree ==
  \A b \in Blocks(State) :
    (Hdr(mem, b).is_free # 0 /\ next_in_memory(mem, b) < heap_end)
      => Hdr(mem, next_in_memory(mem, b)).is_free = 0

\* the last call grew the heap, or released a block that was merged, and a
\* free block with an allocated neighbour exists
C4_Witness ==
  /\ \/ last.op = "malloc" /\ last.grew /\ last.ret # NULL
     \/ last.op = "free" /\ last.merged
  /\ FreeBlocks # {}
  /\ Cardinality(Blocks(State)) >= 2

\* C5: on an initialised heap the address-order walk from heap_start visits
\* only addresses that hold a block header and stops exactly at heap_end.
C5_Contiguity ==
  heap_start # NULL =>
    /\ walk_end(mem, heap_start, heap_end) = heap_end
    /\ Blocks(State) \subseteq DOMAIN mem

\* the heap has grown, a block has been split and a release has merged
C5_Witness ==
  /\ heap_start # NULL
  /\ heap_end - heap_start > DEFAULT_HEAP_SIZE
  /\ last.op = "free" /\ last.merged
  /\ Cardinality(Blocks(State)) >= 2

\* C6: the blocks reachable from free_list by next links are exactly the
\* free blocks of the address-order walk, each once; prev is the inverse of
\* next and the head's prev is null.
C6_FreeListSound ==
  LET l == FreeListSeq
  IN /\ \A i \in 1..Len(l) : \A j \in 1..Len(l) : l[i] = l[j] => i = j
     /\ {l[i] : i \in 1..Len(l)} = FreeBlocks
     /\ \A i \in 1..Len(l) :
          Hdr(mem, l[i]).prev = (IF i = 1 THEN NULL ELSE l[i - 1])

\* a split has put its residual on a free list that holds another block too
C6_Witness ==
  /\ last.op = "malloc" /\ last.ret # NULL
  /\ Len(FreeListSeq) >= 2
  /\ next_in_memory(mem, last.ret - H) \in FreeBlocks
  /\ free_list = next_in_memory(mem, last.ret - H)

\* C7: every allocated block has payload_size >= MIN_PAYLOAD_SIZE, and so
\* has every free block that is not the last block of the heap, for every
\* request size s >= 1.
C7_MinSize ==
  \A b \in Blocks(State) :
    \/ Hdr(mem, b).payload_size >= MIN_PAYLOAD_SIZE
    \/ Hdr(mem, b).is_free # 0 /\ LastBlock(b)

\* C8: when the initial program break is a multiple of 8, every pointer
\* my_malloc returned is a multiple of 8, and every block's payload_size is
\* a multiple of 8.
C8_Alignment ==
  brk0 % ALIGNMENT = 0 =>
    /\ \A p \in DOMAIN live : p % ALIGNMENT = 0
    /\ last.op = "malloc" => last.ret % ALIGNMENT = 0
    /\ \A b \in Blocks(State) : Hdr(mem, b).payload_size % ALIGNMENT = 0

\* a request that is no multiple of 8 has been served from an aligned break
C8_Witness ==
  /\ brk0 % ALIGNMENT = 0
  /\ last.op = "malloc" /\ last.ret # NULL /\ last.arg % ALIGNMENT # 0
  /\ Cardinality(DOMAIN live) >= 2

\* C9: every block of the address-order walk has magic FREE-tag exactly when
\* is_free is set and ALLOCATED-tag exactly when it is clear.
C9_TagConsistency ==
  \A b \in Blocks(State) :
    \/ Hdr(mem, b).is_free # 0 /\ Hdr(mem, b).magic = MAGIC_FREE
    \/ Hdr(mem, b).is_free = 0 /\ Hdr(mem, b).magic = MAGIC_ALLOCATED

\* allocated and free blocks coexist after a release
C9_Witness ==
  /\ last.op = "free" /\ last.outcome = "ok"
  /\ \E b \in Blocks(State) : Hdr(mem, b).magic = MAGIC_ALLOCATED
  /\ \E b \in Blocks(State) : Hdr(mem, b).magic = MAGIC_FREE

\* the sizes m with 0 < m <= align_up(n, 8) tried after releasing a block
\* requested with size n
ReuseSizes(n) ==
  {m \in ReqSizes \cup {1, n, align_size(n)} : 0 < m /\ m <= align_size(n)}

\* C2: in any reachable state, p = allocate(n) (non-null), release(p),
\* q = allocate(m) with 0 < m <= align_up(n, 8) gives q = p.
C2_ReuseLaw ==
  \A n \in ReqSizes : \A ok_init \in BOOLEAN : \A ok_grow \in BOOLEAN :
    LET a == my_malloc(State, n, ok_init, ok_grow)
    IN a.ret # NULL =>
         \A m \in ReuseSizes(n) : \A ok2 \in BOOLEAN :
           my_malloc(my_free(a.st, a.ret), m, ok2, ok2).ret = a.ret

\* the last call was an allocate that grew the heap; releasing its block
\* merges it with a neighbour, and the next allocate returns the same pointer
C2_Witness ==
  /\ last.op = "malloc" /\ last.ret # NULL /\ last.grew
  /\ LET f == my_free(State, last.ret)
     IN /\ Cardinality(Blocks(f)) < Cardinality(Blocks(State))
        /\ my_malloc(f, 1, TRUE, TRUE).ret = last.ret

HeapVars == <<heap_start, heap_end, free_list, mem>>

\* C3: a release of a pointer whose header does not carry the ALLOCATED tag,
\* and in particular of a pointer that was released already and not returned
\* again since, leaves heap_start, heap_end, free_list and every header as
\* they were, and an allocate that succeeded before the call succeeds after.
C3_RejectedFreeNoChange ==
  [][(last'.op = "free" /\ (last'.outcome = "rejected" \/ last'.arg \in freed)) =>
       /\ HeapVars' = HeapVars
       /\ \A s \in ReqSizes :
            my_malloc(State, s, TRUE, TRUE).ret # NULL
              => my_malloc(State', s, TRUE, TRUE).ret # NULL]_vars

\* the rejected release was of a pointer whose block an earlier release had
\* merged into a neighbour, while another allocation is live
C3_Witness ==
  /\ last.op = "free" /\ last.outcome = "rejected"
  /\ last.arg \in freed
  /\ last.arg - H \notin Blocks(State)
  /\ DOMAIN live # {}

\* C10 as claimed: an allocate that returns null because a break extension
\* failed leaves heap_start, heap_end, free_list and every header unchanged.
C10_OomNoChange ==
  [][(last'.op = "malloc" /\ last'.outcome = "oom") => HeapVars' = HeapVars]_vars

\* C10 as amended: the heap is as it was when the failing extension was
\* requested.  On an initialised heap, and when first-use initialisation
\* fails, nothing changes; when the call initialised the heap and its grow
\* then failed, the heap is the freshly initialised one (a single free
\* block of DEFAULT_HEAP_SIZE - H bytes) and heap_end is not advanced by the
\* failed grow.  An allocate that fits a free block still succeeds.
C10_OomKeepsHeap ==
  [][(last'.op = "malloc" /\ last'.outcome = "oom") =>
       /\ \/ HeapVars' = HeapVars
          \/ /\ heap_start = NULL
             /\ heap_start' = brk
             /\ heap_end' = brk + DEFAULT_HEAP_SIZE
             /\ brk' = heap_end'
             /\ free_list' = heap_start'
             /\ mem' = Store(mem, brk,
                         [payload_size |-> DEFAULT_HEAP_SIZE - H, is_free |-> 1,
                          next |-> NULL, prev |-> NULL, magic |-> MAGIC_FREE])
       /\ heap_start # NULL => (HeapVars' = HeapVars /\ brk' = brk)
       /\ \A s \in ReqSizes :
            (s > 0 /\ find_free_block(State', align_size(s)) # NULL)
              => my_malloc(State', s, FALSE, FALSE).ret # NULL]_vars

\* a grow failed on an initialised heap that holds a live block and a free one
C10_Witness ==
  /\ last.op = "malloc" /\ last.outcome = "oom"
  /\ heap_start # NULL
  /\ DOMAIN live # {}
  /\ FreeBlocks # {}

(* ---------------- C11: allocation fails only on bad input or OS failure -- *)
\* the state in which my_malloc looks for a fit: st itself, or st after the
\* first-use initialisation of lines 217-221 when the OS grants it
PreFit(st) == init_allocator(st, DEFAULT_HEAP_SIZE, TRUE).st

\* the bytes my_malloc asks the OS for when no block fits size: the
\* request plus a header, rounded up, and never less than DEFAULT_HEAP_SIZE
GrowBytes(size) ==
  LET need == align_size(align_size(size) + H)
  IN IF need > DEFAULT_HEAP_SIZE THEN need ELSE DEFAULT_HEAP_SIZE

\* some free block reached from the head of the list holds required_size bytes
Fits(st, required_size) ==
  \E i \in 1..Len(list_from(st.mem, st.free_list, Cardinality(DOMAIN st.mem) + 1)) :
     Hdr(st.mem, list_from(st.mem, st.free_list,
                           Cardinality(DOMAIN st.mem) + 1)[i]).payload_size
       >= required_size

\* the OS can grant every break extension a call my_malloc(size) asks for
OsGrants(st, size) ==
  st.brk + (IF st.heap_start = NULL THEN DEFAULT_HEAP_SIZE ELSE 0)
         + (IF Fits(PreFit(st), align_size(size)) THEN 0 ELSE GrowBytes(size))
    <= brk0 + MaxHeapBytes

\* C11: in every reachable state and for every request s > 0, when the OS
\* grants every break extension the call asks for, my_malloc(s) returns a
\* non-null pointer to an allocated block of at least align_size(s) bytes
\* that lies within the heap, and the heap has grown exactly when no free
\* block fitted; every pointer the last my_malloc returned has such a block
C11_AllocSucceeds ==
  /\ \A s \in ReqSizes \ {0} :
       OsGrants(State, s) =>
         LET r == my_malloc(State, s, TRUE, TRUE)
             b == r.ret - H
         IN /\ r.ret # NULL
            /\ Hdr(r.st.mem, b).magic = MAGIC_ALLOCATED
            /\ Hdr(r.st.mem, b).payload_size >= align_size(s)
            /\ r.st.heap_start <= b
            /\ r.ret + Hdr(r.st.mem, b).payload_size <= r.st.heap_end
            /\ (r.st.heap_end > PreFit(State).heap_end)
                 <=> ~Fits(PreFit(State), align_size(s))
  /\ (last.op = "malloc" /\ last.ret # NULL) =>
       /\ last.arg > 0
       /\ Hdr(mem, last.ret - H).payload_size >= align_size(last.arg)

\* a request larger than the whole heap was served by growing it
C11_Witness ==
  /\ last.op = "malloc" /\ last.arg = 5000 /\ last.grew /\ last.ret # NULL
  /\ Hdr(mem, last.ret - H).payload_size >= 5000
  /\ \E b \in DOMAIN mem : b # last.ret - H /\ Hdr(mem, b).magic = MAGIC_ALLOCATED

(* ---------------- C12: bad input is a no-op ---------------- *)
\* C12: my_malloc(0) returns NULL and my_free(NULL) returns, and each leaves
\* heap_start, heap_end, free_list, every header and the program break as
\* they were; on an uninitialised allocator my_malloc(0) leaves it
\* uninitialised
C12_BadInputNoOp ==
  [][ /\ (last'.op = "malloc" /\ last'.arg = 0) =>
            /\ last'.ret = NULL
            /\ UNCHANGED <<heap_start, heap_end, free_list, mem, brk>>
            /\ (heap_start = NULL => heap_start' = NULL /\ brk' = brk0)
      /\ (last'.op = "free" /\ last'.arg = NULL) =>
            UNCHANGED <<heap_start, heap_end, free_list, mem, brk>>
    ]_vars

\* my_malloc(0) was called on an allocator that has no heap
C12_Witness ==
  /\ last.op = "malloc" /\ last.arg = 0 /\ last.ret = NULL
  /\ heap_start = NULL /\ mem = << >> /\ brk = brk0

(* ---------------- C13: live payloads are not written ---------------- *)
\* C13: while a pointer p returned by my_malloc(n) stays live, no call
\* creates or changes a header (its size, links, flag or tag) at an address
\* whose H bytes overlap the payload bytes [p, p + n)
C13_PayloadUntouched ==
  [][ \A p \in (DOMAIN live) \cap (DOMAIN live') :
        \A a \in DOMAIN mem' :
           (a \notin DOMAIN mem \/ mem'[a] # mem[a]) =>
              (a + H <= p \/ a >= p + live[p])
    ]_vars

\* a release merged blocks while another pointer was live and a header that
\* was absorbed earlier lies inside a live payload
C13_Witness ==
  /\ last.op = "free" /\ last.outcome = "ok" /\ last.merged
  /\ \E p \in DOMAIN live : \E a \in DOMAIN mem : p <= a /\ a < p + live[p]

(* ---------------- C14: validate_heap succeeds ---------------- *)
\* C14: validate_heap returns 1 before and after every call of the
\* interface, with or without a heap; a call of validate_heap returns 1,
\* leaves the allocator's state as it was, and a second call in a row
\* returns what the first returned
C14_ValidatePasses ==
  [][ /\ validate_heap(State) = 1
      /\ validate_heap(State') = 1
      /\ last'.op = "validate" =>
           /\ last'.ret = 1
           /\ UNCHANGED <<heap_start, heap_end, free_list, mem, brk, live, freed>>
           /\ validate_heap(State') = last'.ret
    ]_vars

\* validate_heap was called on a grown heap of free and allocated blocks
C14_Witness ==
  /\ last.op = "validate" /\ last.ret = 1
  /\ heap_end - heap_start > DEFAULT_HEAP_SIZE
  /\ Cardinality(Blocks(State)) >= 3
  /\ \E b \in Blocks(State) : Hdr(mem, b).magic = MAGIC_ALLOCATED
  /\ \E b \in Blocks(State) : Hdr(mem, b).magic = MAGIC_FREE
  /\ \E b \in Blocks(State) : next_in_memory(mem, b) = heap_end

(* ---------------- C15: the heap only grows ---------------- *)
\* C15: once a heap exists heap_start never changes and heap_end never
\* decreases; my_free leaves heap_end as it was, and my_malloc moves heap_end
\* (beyond setting up the first heap) only when no free block fits the
\* rounded request
C15_MonotoneHeap ==
  [][ /\ heap_start # NULL => heap_start' = heap_start /\ heap_end' >= heap_end
      /\ last'.op = "free" => heap_end' = heap_end
      /\ (last'.op = "malloc" /\ heap_end' # heap_end
            /\ heap_end' # PreFit(State).heap_end) =>
           /\ last'.arg > 0
           /\ ~Fits(PreFit(State), align_size(last'.arg))
    ]_vars

\* the heap was grown by a my_malloc that came after a release, and an
\* allocated block from before the growth still sits at heap_start
C15_Witness ==
  /\ last.op = "malloc" /\ last.grew /\ last.ret # NULL
  /\ freed # {}
  /\ heap_start = brk0 /\ heap_end > heap_start + DEFAULT_HEAP_SIZE
  /\ last.ret # heap_start + H
  /\ Hdr(mem, heap_start).magic = MAGIC_ALLOCATED

(* ---------------- C16: first fit ---------------- *)
\* the free list of st as a sequence of header addresses, head first
ListOf(st) == list_from(st.mem, st.free_list, Cardinality(DOMAIN st.mem) + 1)

\* the position in the free list of the first block holding required_size bytes
FirstFitIndex(st, required_size) ==
  CHOOSE k \in 1..Len(ListOf(st)) :
    /\ Hdr(st.mem, ListOf(st)[k]).payload_size >= required_size
    /\ \A i \in 1..(k - 1) : Hdr(st.mem, ListOf(st)[i]).payload_size < required_size

\* the subsequence of s made of the members of set
Restrict(s, set) == LET In(x) == x \in set IN SelectSeq(s, In)

PreSplit(st, size) ==
  IF Fits(PreFit(st), align_size(size)) THEN PreFit(st)
  ELSE expand_heap(PreFit(st), Wrap(align_size(size) + H), TRUE).st

\* C17: when my_malloc takes a free block of P payload bytes for the rounded
\* request req: if P - req < H + MIN_PAYLOAD_SIZE the block is handed out
\* whole (it keeps P and the heap has the blocks it had), otherwise the block
\* gets payload_size req and a free, FREE-tagged block of P - req - H bytes
\* stands at block + H + req, on the free list, ending where the taken block
\* ended; so every allocated block has req <= payload_size < req + H +
\* MIN_PAYLOAD_SIZE
C17_SplitRule ==
  [][ /\ (last'.op = "malloc" /\ last'.ret # NULL) =>
           LET pre == PreSplit(State, last'.arg)
               req == align_size(last'.arg)
               b == last'.ret - H
               P == Hdr(pre.mem, b).payload_size
               nb == b + H + req
           IN /\ b \in Blocks(pre) /\ Hdr(pre.mem, b).is_free = 1
              /\ P >= req
              /\ IF P - req < H + MIN_PAYLOAD_SIZE
                 THEN /\ Hdr(mem', b).payload_size = P
                      /\ Blocks(State') = Blocks(pre)
                 ELSE /\ Hdr(mem', b).payload_size = req
                      /\ Blocks(State') = Blocks(pre) \cup {nb}
                      /\ nb \notin Blocks(pre)
                      /\ Hdr(mem', nb).payload_size = P - req - H
                      /\ Hdr(mem', nb).is_free = 1
                      /\ Hdr(mem', nb).magic = MAGIC_FREE
                      /\ \E i \in 1..Len(ListOf(State')) : ListOf(State')[i] = nb
                      /\ next_in_memory(mem', nb) = b + H + P
      /\ \A p \in DOMAIN live' :
           /\ align_size(live'[p]) <= Hdr(mem', p - H).payload_size
           /\ Hdr(mem', p - H).payload_size
                < align_size(live'[p]) + H + MIN_PAYLOAD_SIZE
    ]_vars

\* one live block was split off a larger one and another was handed out
\* whole with slack
C17_Witness ==
  /\ last.op = "malloc" /\ last.ret # NULL
  /\ \E p \in DOMAIN live :
        Hdr(mem, p - H).payload_size = align_size(live[p])
        /\ Hdr(mem, next_in_memory(mem, p - H)).magic = MAGIC_FREE
  /\ \E q \in DOMAIN live :
        Hdr(mem, q - H).payload_size > align_size(live[q])

(* ---------------- C18: the initial size ---------------- *)
\* what a first init_allocator(initial_size) has to leave behind for a heap
\* of size bytes: one free block at the old break, alone on the free list
FreshHeap(size) ==
  /\ last'.ret = brk
  /\ heap_start' = brk /\ heap_end' = brk + size /\ brk' = brk + size
  /\ free_list' = heap_start'
  /\ Blocks(State') = {heap_start'}
  /\ Hdr(mem', heap_start') =
       [payload_size |-> size - H, is_free |-> 1, magic |-> MAGIC_FREE,
        next |-> NULL, prev |-> NULL]

\* a second init_allocator returns the existing base and changes nothing
SecondInitNoOp ==
  (last'.op = "init" /\ heap_start # NULL) =>
     /\ last'.ret = heap_start
     /\ UNCHANGED <<heap_start, heap_end, free_list, mem, brk>>

\* C18 as stated: the first init_allocator rounds initial_size up to a
\* multiple of ALIGNMENT and then takes DEFAULT_HEAP_SIZE when the rounded
\* value is below H + MIN_PAYLOAD_SIZE; a second call changes nothing
C18_RoundThenSubstitute ==
  [][ /\ (last'.op = "init" /\ last'.outcome = "ok") =>
           LET rounded == align_size(last'.arg)
           IN FreshHeap(IF rounded < H + MIN_PAYLOAD_SIZE
                        THEN DEFAULT_HEAP_SIZE ELSE rounded)
      /\ SecondInitNoOp
    ]_vars

\* C18, amended: the first init_allocator takes DEFAULT_HEAP_SIZE when
\* initial_size itself is below H + MIN_PAYLOAD_SIZE and then rounds the
\* size up to a multiple of ALIGNMENT; the heap is one free block of
\* size - H bytes; a second call returns the base and changes nothing
C18_SubstituteThenRound ==
  [][ /\ (last'.op = "init" /\ last'.outcome = "ok") =>
           FreshHeap(align_size(IF last'.arg < H + MIN_PAYLOAD_SIZE
                                THEN DEFAULT_HEAP_SIZE ELSE last'.arg))
      /\ SecondInitNoOp
    ]_vars

\* init_allocator(47) has set up a heap of DEFAULT_HEAP_SIZE bytes
C18_Witness ==
  /\ last.op = "init" /\ last.outcome = "ok" /\ last.arg = 47
  /\ heap_end - heap_start = DEFAULT_HEAP_SIZE
  /\ Hdr(mem, heap_start).payload_size = DEFAULT_HEAP_SIZE - H

(* ---------------- C19: the grow rule ---------------- *)
\* the larger of two numbers
Max(a, b) == IF a >= b THEN a ELSE b

\* the free blocks of st that end at or beyond its heap_end (at most one)
FreeLast(st) ==
  {b \in Blocks(st) : next_in_memory(st.mem, b) >= st.heap_end
                      /\ Hdr(st.mem, b).is_free # 0}

\* the grow rule for the heap st and the rounded request req
GrowRule(st, req) ==
  LET expand == Max(align_size(req + H), DEFAULT_HEAP_SIZE)
      g == expand_heap(st, Wrap(req + H), TRUE)
  IN /\ g.ret # NULL
     /\ g.st.heap_end = st.heap_end + expand
     /\ g.st.heap_start = st.heap_start
     /\ IF FreeLast(st) # {}
        THEN /\ g.ret \in FreeLast(st)
             /\ Hdr(g.st.mem, g.ret).payload_size
                  = Hdr(st.mem, g.ret).payload_size + expand
             /\ ListOf(g.st) = ListOf(st)
             /\ Blocks(g.st) = Blocks(st)
        ELSE /\ g.ret = st.heap_end
             /\ Hdr(g.st.mem, g.ret).payload_size = expand - H
             /\ ListOf(g.st) = <<g.ret>> \o ListOf(st)
             /\ Blocks(g.st) = Blocks(st) \cup {g.ret}
     /\ Hdr(g.st.mem, g.ret).is_free = 1
     /\ Hdr(g.st.mem, g.ret).magic = MAGIC_FREE
     /\ Hdr(g.st.mem, g.ret).payload_size >= req
     /\ next_in_memory(g.st.mem, g.ret) = g.st.heap_end

\* C19: wherever my_malloc finds no free block for the rounded request req
\* and the OS grants the extension, expand_heap(req + H) moves heap_end up by
\* exactly max(align_size(req + H), DEFAULT_HEAP_SIZE); a free last block
\* gains that many payload bytes and the free list and the blocks are the
\* ones there were, otherwise a free block of expand - H bytes stands at the
\* old heap_end; the block returned holds req bytes and ends at the new
\* heap_end.  A my_malloc that grew the heap moved heap_end by that amount
\* and returned that block.
C19_GrowRule ==
  [][ /\ \A s \in ReqSizes \ {0} :
           (~Fits(PreFit(State), align_size(s)) /\ OsGrants(State, s)) =>
              GrowRule(PreFit(State), align_size(s))
      /\ (last'.op = "malloc" /\ last'.ret # NULL
            /\ ~Fits(PreFit(State), align_size(last'.arg))) =>
           LET pre == PreFit(State)
           IN /\ heap_end' = pre.heap_end
                   + Max(align_size(align_size(last'.arg) + H), DEFAULT_HEAP_SIZE)
              /\ last'.ret - H \in FreeLast(pre) \cup {pre.heap_end}
              /\ FreeLast(pre) # {} => last'.ret - H \in FreeLast(pre)
    ]_vars

\* the heap was grown behind an allocated last block: the block returned
\* starts at the old heap_end
C19_Witness ==
  /\ last.op = "malloc" /\ last.grew /\ last.arg = 5000
  /\ last.ret - H = heap_start + DEFAULT_HEAP_SIZE
  /\ Hdr(mem, heap_start).magic = MAGIC_ALLOCATED
  /\ next_in_memory(mem, heap_start) = last.ret - H
  /\ heap_end = heap_start + DEFAULT_HEAP_SIZE + 5032

(* ---------------- C20: full release restores one block ---------------- *)
\* C20: whenever a heap exists and every pointer my_malloc returned has been
\* released, the heap is one free block at heap_start of heap_end -
\* heap_start - H payload bytes and the free list holds that block alone
C20_FullRelease ==
  (heap_start # NULL /\ DOMAIN live = {}) =>
     /\ Blocks(State) = {heap_start}
     /\ Hdr(mem, heap_start).payload_size = heap_end - heap_start - H
     /\ Hdr(mem, heap_start).is_free = 1
     /\ Hdr(mem, heap_start).magic = MAGIC_FREE
     /\ FreeListSeq = <<heap_start>>
     /\ Hdr(mem, heap_start).next = NULL /\ Hdr(mem, heap_start).prev = NULL

\* the last of several pointers was released, on a heap that had grown, and
\* its block merged with its neighbours
C20_Witness ==
  /\ last.op = "free" /\ last.outcome = "ok" /\ last.merged
  /\ DOMAIN live = {} /\ Cardinality(freed) >= 2
  /\ heap_end - heap_start > DEFAULT_HEAP_SIZE
  /\ Cardinality(DOMAIN mem) >= 3

(* ---------------- C21: no size wrap-around ---------------- *)
\* C21: a pointer my_malloc(s) returned, for any s from 1 to the largest
\* value of the size type, is the payload of a block of at least s bytes
C21_NoWrap ==
  /\ (last.op = "malloc" /\ last.ret # NULL) =>
        Hdr(mem, last.ret - H).payload_size >= last.arg
  /\ \A p \in DOMAIN live : Hdr(mem, p - H).payload_size >= live[p]

====
